---------------------------- MODULE Spec2Model ----------------------------
(***************************************************************************)
(* A model of dfpyre's DFTemplate builder (src/dfpyre/pyre.py): the block  *)
(* sequence, the bracket state, the defined-variables map, the schema      *)
(* table read by build(), and the outcome of the most recent call.         *)
(*                                                                         *)
(* Python values are modelled as follows.                                  *)
(*   - None is the string "None" (no flavour, name or key equals it).      *)
(*   - a dict is a function from its keys; a dict whose iteration order    *)
(*     matters (the parameters of callFunction / return_) is a sequence    *)
(*     of <<key, value>> pairs with distinct keys.                         *)
(*   - a raw argument is a record [py, type, n, s, scope]: py is the       *)
(*     Python type of the element ("int", "float", "str", or "obj" for an  *)
(*     object of dfpyre.items), the other fields are its payload.          *)
(***************************************************************************)
EXTENDS Integers, Sequences, FiniteSets, TLC

VARIABLES
    commands,       \* self.commands: the list of CodeBlock
    closebracket,   \* self.closebracket: None, 'norm' or 'repeat'
    definedVars,    \* self.definedVars: dict name -> var(...)
    TAGDATA,        \* module global TAGDATA, loaded once from data.json
    clock,          \* the wall clock (seconds) that gzip.compress reads
    ret             \* the most recent call: which one and how it ended

vars == <<commands, closebracket, definedVars, TAGDATA, clock, ret>>

---------------------------------------------------------------------------
(* Bounds of the model *)

MaxCmds == 2      \* Spec: operations are taken while len(commands) < MaxCmds
MaxNest == 6      \* SpecNest: the same, for the opener / bracket operations
MaxItemCmds == 1  \* SpecItems: the same, for the operations given long lists
MaxArgs == 29     \* SpecItems: the longest argument list passed to one call
LongFrom == 24    \* SpecItems: lists of 0..2 and of LongFrom..MaxArgs arguments
MaxClock == 1     \* the clock advances at most this many seconds
MaxRefCmds == 2   \* SpecRefs: operations are taken while len(commands) < MaxRefCmds
MaxCallCmds == 2  \* SpecCalls: the same, for callFunction and return_

---------------------------------------------------------------------------
(* Python helpers *)

None == "None"

EmptyDict == [k \in {} |-> None]

Min(a, b) == IF a < b THEN a ELSE b
Max(a, b) == IF a > b THEN a ELSE b

\* lst[:k], with Python's meaning of a negative k
SlicePrefix(lst, k) ==
    IF k >= 0 THEN SubSeq(lst, 1, Min(k, Len(lst)))
              ELSE SubSeq(lst, 1, Max(Len(lst) + k, 0))

\* d[key] = value on a dict
DictSet(d, key, value) ==
    [k \in DOMAIN d \cup {key} |-> IF k = key THEN value ELSE d[k]]

\* d.get(key)
DictGet(d, key) == IF key \in DOMAIN d THEN d[key] ELSE None

---------------------------------------------------------------------------
(* Module constants of pyre.py *)

VARIABLE_TYPES ==
    {"txt", "num", "item", "loc", "var", "snd", "part", "pot", "g_val", "vec"}

TEMPLATE_STARTERS == {"event", "entity_event", "func", "process"}

---------------------------------------------------------------------------
(* dfpyre.items: the typed values (the module is imported by pyre.py but   *)
(* is not part of the sources at hand; modelled from the data model).      *)

RawInt(i) == [py |-> "int", type |-> "", n |-> i, s |-> "", scope |-> ""]
RawStr(str) == [py |-> "str", type |-> "", n |-> 0, s |-> str, scope |-> ""]

num(element) ==
    [py |-> "obj", type |-> "num", n |-> element.n, s |-> "", scope |-> ""]

text(element) ==
    [py |-> "obj", type |-> "txt", n |-> 0, s |-> element.s, scope |-> ""]

var(name, scope) ==
    [py |-> "obj", type |-> "var", n |-> 0, s |-> name, scope |-> scope]

\* arg.format(slot): the slot-indexed wire form of a typed value
format(arg, slot) ==
    [item |-> [id |-> arg.type, n |-> arg.n, s |-> arg.s, scope |-> arg.scope],
     slot |-> slot]

---------------------------------------------------------------------------
(* data.json: the schema table (external data; a small table with every    *)
(* shape build() distinguishes: a category under 'extras', a category with *)
(* actions carrying two, one and no tags, a category under both 'extras'   *)
(* and its own key, and categories not listed).                            *)

Tag(name, slot) ==
    [item |-> [id |-> "bl_tag", n |-> 0, s |-> name, scope |-> ""],
     slot |-> slot]

SchemaData ==
    [extras |-> [start_process |-> <<Tag("Local Variables", 25),
                                     Tag("Target Mode", 26)>>,
                 call_func |-> <<Tag("Extra", 26)>>],
     call_func |-> [call_func |-> <<Tag("By Action", 25),
                                    Tag("By Action 2", 26)>>],
     player_action |-> [SendMessage |-> <<Tag("Alignment Mode", 25),
                                          Tag("Text Value Merging", 26)>>],
     control |-> [Wait |-> <<Tag("Time Unit", 26)>>,
                  Return |-> <<>>],
     set_var |-> ("=" :> <<>>)]

\* _loadCodeblockData(): the table, or {} when data.json is not found
LoadedTables == {SchemaData, EmptyDict}

---------------------------------------------------------------------------
(* class CodeBlock: CodeBlock(name, *args, target='Default', data={}).     *)
(* The builder passes the converted tuple as ONE positional argument, so   *)
(* self.args is <<tuple>>; a block made without it has self.args = <<>>.   *)

CodeBlock(name, args, target, data) ==
    [name |-> name, args |-> args, target |-> target, data |-> data]

---------------------------------------------------------------------------
(* The outcome of a call *)

Returned(op) == [op |-> op, status |-> "return"]
Raised(op, exc) == [op |-> op, status |-> "raise", exc |-> exc]

Ok(self) == [exc |-> "", self |-> self]
Fail(exc, self) == [exc |-> exc, self |-> self]

---------------------------------------------------------------------------
(* class DFTemplate *)

\* __init__: the state of a fresh builder
init ==
    [commands |-> <<>>, closebracket |-> None, definedVars |-> EmptyDict]

\* One element of _convertDataTypes' loop: the value appended to retList,
\* or the exception the element raises.
convertElement(self, element) ==
    IF element.py \in {"int", "float"} THEN [exc |-> "", val |-> num(element)]
    ELSE IF element.py = "str" THEN
        IF element.s = "" THEN [exc |-> "IndexError", val |-> element]
        ELSE IF Head(element.s) = "^" THEN
            IF Tail(element.s) \in DOMAIN self.definedVars
            THEN [exc |-> "", val |-> self.definedVars[Tail(element.s)]]
            ELSE [exc |-> "KeyError", val |-> element]
        ELSE [exc |-> "", val |-> text(element)]
    ELSE [exc |-> "", val |-> element]

RECURSIVE convertFrom(_, _, _, _)
convertFrom(self, lst, i, retList) ==
    IF i > Len(lst) THEN [exc |-> "", val |-> retList]
    ELSE LET c == convertElement(self, lst[i])
         IN  IF c.exc # "" THEN [exc |-> c.exc, val |-> retList]
             ELSE convertFrom(self, lst, i + 1, Append(retList, c.val))

\* _convertDataTypes(lst): the tuple of typed values, or the first exception
convertDataTypes(self, lst) == convertFrom(self, lst, 1, <<>>)

\* A faulty variant of the append: the block is put in front
appendFront(self, cmd) == [self EXCEPT !.commands = <<cmd>> \o @]

\* self.commands.append(cmd)
append(self, cmd) == [self EXCEPT !.commands = Append(@, cmd)]

\* A faulty variant of _openbracket(): the bracket block put before the
\* block that opens it
openbracketBefore(self, btype) ==
    [self EXCEPT
        !.commands = IF @ = <<>> THEN @
                     ELSE Append(SubSeq(@, 1, Len(@) - 1),
                                 CodeBlock("Bracket", <<>>, "Default",
                                    [id |-> "bracket", direct |-> "open",
                                     type |-> btype]))
                          \o <<@[Len(@)]>>,
        !.closebracket = btype]

\* _openbracket(btype)
openbracket(self, btype) ==
    [append(self, CodeBlock("Bracket", <<>>, "Default",
                [id |-> "bracket", direct |-> "open", type |-> btype]))
        EXCEPT !.closebracket = btype]

\* The methods that convert *args and append one block of category `block`
\* (playerAction, gameAction, entityAction, control, selectObject,
\* setVariable share this body, with their own category and target).
actionBlock(self, block, name, args, target) ==
    LET conv == convertDataTypes(self, args)
    IN  IF conv.exc # "" THEN Fail(conv.exc, self)
        ELSE Ok(append(self, CodeBlock(name, <<conv.val>>, target,
                    [id |-> "block", block |-> block, action |-> name])))

\* The conditional openers: the block, then _openbracket()
ifBlock(self, block, name, args, target) ==
    LET r == actionBlock(self, block, name, args, target)
    IN  IF r.exc # "" THEN r ELSE Ok(openbracket(r.self, "norm"))

playerEvent(self, name) ==
    Ok(append(self, CodeBlock(name, <<>>, "Default",
            [id |-> "block", block |-> "event", action |-> name])))

entityEvent(self, name) ==
    Ok(append(self, CodeBlock(name, <<>>, "Default",
            [id |-> "block", block |-> "entity_event", action |-> name])))

function(self, name) ==
    Ok(append(self, CodeBlock("function", <<>>, "Default",
            [id |-> "block", block |-> "func", data |-> name])))

process(self, name) ==
    Ok(append(self, CodeBlock("process", <<>>, "Default",
            [id |-> "block", block |-> "process", data |-> name])))

startProcess(self, name) ==
    Ok(append(self, CodeBlock("start_process", <<>>, "Default",
            [id |-> "block", block |-> "start_process", data |-> name])))

playerAction(self, name, args, target) ==
    actionBlock(self, "player_action", name, args, target)

gameAction(self, name, args) ==
    actionBlock(self, "game_action", name, args, "Default")

entityAction(self, name, args) ==
    actionBlock(self, "entity_action", name, args, "Default")

ifPlayer(self, name, args, target) ==
    ifBlock(self, "if_player", name, args, target)

ifVariable(self, name, args) == ifBlock(self, "if_var", name, args, "Default")

ifGame(self, name, args) == ifBlock(self, "if_game", name, args, "Default")

ifEntity(self, name, args) == ifBlock(self, "if_entity", name, args, "Default")

else_(self) ==
    Ok(openbracket(append(self, CodeBlock("else", <<>>, "Default",
            [id |-> "block", block |-> "else"])), "norm"))

\* repeat(name, *args, subAction=None)
repeat(self, name, args, subAction) ==
    LET conv == convertDataTypes(self, args)
        data == IF subAction # None
                THEN [id |-> "block", block |-> "repeat", action |-> name,
                      subAction |-> subAction]
                ELSE [id |-> "block", block |-> "repeat", action |-> name]
    IN  IF conv.exc # "" THEN Fail(conv.exc, self)
        ELSE Ok(openbracket(
                    append(self, CodeBlock(name, <<conv.val>>, "Default", data)),
                    "repeat"))

\* Faulty variants of bracket(): one closes with 'norm' whatever was opened,
\* the other forgets the open bracket once it has closed it.
bracketAlwaysNorm(self, args) ==
    LET conv == convertDataTypes(self, args)
    IN  IF conv.exc # "" THEN Fail(conv.exc, self)
        ELSE Ok(append(self, CodeBlock("Bracket", <<>>, "Default",
                    [id |-> "bracket", direct |-> "close", type |-> "norm"])))

bracketResetting(self, args) ==
    LET conv == convertDataTypes(self, args)
    IN  IF conv.exc # "" THEN Fail(conv.exc, self)
        ELSE Ok([append(self, CodeBlock("Bracket", <<>>, "Default",
                    [id |-> "bracket", direct |-> "close",
                     type |-> self.closebracket]))
                 EXCEPT !.closebracket = None])

\* The flavors of the opening bracket blocks of cmds[i..] not yet closed,
\* innermost last, on top of stack
RECURSIVE openStack(_, _, _)
openStack(cmds, i, stack) ==
    IF i > Len(cmds) THEN stack
    ELSE IF DictGet(cmds[i].data, "direct") = "open"
    THEN openStack(cmds, i + 1, Append(stack, cmds[i].data.type))
    ELSE IF DictGet(cmds[i].data, "direct") = "close" /\ stack # <<>>
    THEN openStack(cmds, i + 1, SubSeq(stack, 1, Len(stack) - 1))
    ELSE openStack(cmds, i + 1, stack)

\* Two more variants of bracket(): one closes the innermost bracket still
\* open (a stack discipline), the other rejects a close with nothing opened.
bracketMatching(self, args) ==
    LET conv == convertDataTypes(self, args)
        stack == openStack(self.commands, 1, <<>>)
    IN  IF conv.exc # "" THEN Fail(conv.exc, self)
        ELSE Ok(append(self, CodeBlock("Bracket", <<>>, "Default",
                    [id |-> "bracket", direct |-> "close",
                     type |-> IF stack = <<>> THEN self.closebracket
                              ELSE stack[Len(stack)]])))

bracketRejecting(self, args) ==
    LET conv == convertDataTypes(self, args)
    IN  IF conv.exc # "" THEN Fail(conv.exc, self)
        ELSE IF self.closebracket = None THEN Fail("ValueError", self)
        ELSE Ok(append(self, CodeBlock("Bracket", <<>>, "Default",
                    [id |-> "bracket", direct |-> "close",
                     type |-> self.closebracket])))

\* bracket(*args): the arguments are converted and then dropped
bracket(self, args) ==
    LET conv == convertDataTypes(self, args)
    IN  IF conv.exc # "" THEN Fail(conv.exc, self)
        ELSE Ok(append(self, CodeBlock("Bracket", <<>>, "Default",
                    [id |-> "bracket", direct |-> "close",
                     type |-> self.closebracket])))

control(self, name, args) == actionBlock(self, "control", name, args, "Default")

selectObject(self, name, args) ==
    actionBlock(self, "select_obj", name, args, "Default")

setVariable(self, name, args) ==
    actionBlock(self, "set_var", name, args, "Default")

\* for key in d: self.setVariable('=', var(key, scope='local'), d[key])
\* from the i-th key on; a raising setVariable ends the loop and the call.
RECURSIVE setLocals(_, _, _)
setLocals(self, d, i) ==
    IF i > Len(d) THEN Ok(self)
    ELSE LET r == setVariable(self, "=", <<var(d[i][1], "local"), d[i][2]>>)
         IN  IF r.exc # "" THEN r ELSE setLocals(r.self, d, i + 1)

\* A faulty variant of callFunction(): the call block before the parameters
callFunctionCallFirst(self, name, parameters) ==
    setLocals(append(self, CodeBlock("call_func", <<>>, "Default",
                [id |-> "block", block |-> "call_func", data |-> name])),
              parameters, 1)

callFunction(self, name, parameters) ==
    LET r == setLocals(self, parameters, 1)
    IN  IF r.exc # "" THEN r
        ELSE Ok(append(r.self, CodeBlock("call_func", <<>>, "Default",
                    [id |-> "block", block |-> "call_func", data |-> name])))

\* A faulty variant of return_(): the Return block before the values
returnControlFirst(self, returndata) ==
    LET r == control(self, "Return", <<>>)
    IN  IF r.exc # "" THEN r ELSE setLocals(r.self, returndata, 1)

return_(self, returndata) ==
    LET r == setLocals(self, returndata, 1)
    IN  IF r.exc # "" THEN r ELSE control(r.self, "Return", <<>>)

\* A faulty variant of define_(): the name is bound with the default scope
defineDefaultScope(self, name, value, scope, createSetVar) ==
    LET r == IF createSetVar
             THEN setVariable(self, "=", <<var(name, scope), value>>)
             ELSE Ok(self)
    IN  IF r.exc # "" THEN r
        ELSE Ok([r.self EXCEPT
                    !.definedVars = DictSet(@, name, var(name, "unsaved"))])

define_(self, name, value, scope, createSetVar) ==
    LET r == IF createSetVar
             THEN setVariable(self, "=", <<var(name, scope), value>>)
             ELSE Ok(self)
    IN  IF r.exc # "" THEN r
        ELSE Ok([r.self EXCEPT
                    !.definedVars = DictSet(@, name, var(name, scope))])

\* A faulty variant of clear(): the defined names survive it
clearKeepingVars(self) == Ok([init EXCEPT !.definedVars = self.definedVars])

\* clear(): self.__init__()
clear(self) == Ok(init)

---------------------------------------------------------------------------
(* build() *)

Capacity == 27   \* if len(items) > 27
TrimBase == 26   \* items[:(26-len(tags))]

\* for arg in cmd.args[0]: append arg.format(slot) if its type is a variable
\* type; slot += 1 either way.  `slot` is the number of arguments passed by.
RECURSIVE renderFrom(_, _, _)
renderFrom(args, slot, items) ==
    IF slot >= Len(args) THEN items
    ELSE LET arg == args[slot + 1]
         IN  renderFrom(args, slot + 1,
                        IF arg.type \in VARIABLE_TYPES
                        THEN Append(items, format(arg, slot))
                        ELSE items)

\* A faulty variant of the rendering loop: slots counted from 1
RECURSIVE renderFromOne(_, _, _)
renderFromOne(args, slot, items) ==
    IF slot >= Len(args) THEN items
    ELSE LET arg == args[slot + 1]
         IN  renderFromOne(args, slot + 1,
                           IF arg.type \in VARIABLE_TYPES
                           THEN Append(items, format(arg, slot + 1))
                           ELSE items)

renderItemsOneBased(cmd) ==
    IF cmd.args # <<>> THEN renderFromOne(cmd.args[1], 0, <<>>) ELSE <<>>

\* "add items into args part of dictionary"
renderItems(cmd) ==
    IF cmd.args # <<>> THEN renderFrom(cmd.args[1], 0, <<>>) ELSE <<>>

\* A faulty variant of the lookup: the category's own table is asked first
lookupTagsActionFirst(cmd, tagdata) ==
    LET blockType == DictGet(cmd.data, "block")
        extrasKeys == IF "extras" \in DOMAIN tagdata
                      THEN DOMAIN tagdata["extras"] ELSE {}
    IN  IF blockType \in DOMAIN tagdata
        THEN IF cmd.name \in DOMAIN tagdata[blockType]
             THEN [found |-> TRUE, tags |-> tagdata[blockType][cmd.name],
                   warnings |-> <<>>]
             ELSE [found |-> FALSE, tags |-> <<>>,
                   warnings |-> <<"Code block name not recognized">>]
        ELSE IF blockType \in extrasKeys
        THEN [found |-> TRUE, tags |-> tagdata["extras"][blockType],
              warnings |-> <<>>]
        ELSE [found |-> FALSE, tags |-> <<>>, warnings |-> <<>>]

\* "set tags": the schema lookup.  found = (tags is not None); warnings are
\* the _warn calls made (the fuzzy-match hint only changes the wording).
\* TAGDATA_KEYS is the table's key set and TAGDATA_EXTRAS_KEYS the key set of
\* its 'extras' entry (both empty when no table was loaded).
lookupTags(cmd, tagdata) ==
    LET blockType == DictGet(cmd.data, "block")
        extrasKeys == IF "extras" \in DOMAIN tagdata
                      THEN DOMAIN tagdata["extras"] ELSE {}
    IN  IF blockType \in extrasKeys
        THEN [found |-> TRUE, tags |-> tagdata["extras"][blockType],
              warnings |-> <<>>]
        ELSE IF blockType \in DOMAIN tagdata
        THEN IF cmd.name \in DOMAIN tagdata[blockType]
             THEN [found |-> TRUE, tags |-> tagdata[blockType][cmd.name],
                   warnings |-> <<>>]
             ELSE [found |-> FALSE, tags |-> <<>>,
                   warnings |-> <<"Code block name not recognized">>]
        ELSE [found |-> FALSE, tags |-> <<>>, warnings |-> <<>>]

\* A faulty variant of the trim: the list is cut to fill the capacity
attachTagsToCapacity(items, look) ==
    IF look.found
    THEN (IF Len(items) > Capacity
          THEN SlicePrefix(items, Capacity - Len(look.tags))
          ELSE items) \o look.tags
    ELSE items

\* "if tags is not None": trim the list, then add the tags to its end
attachTags(items, look) ==
    IF look.found
    THEN (IF Len(items) > Capacity
          THEN SlicePrefix(items, TrimBase - Len(look.tags))
          ELSE items) \o look.tags
    ELSE items

\* One iteration of build()'s loop: the block dict appended to
\* mainDict['blocks'] and the warnings printed on the way.
buildBlock(cmd, tagdata) ==
    LET look == lookupTags(cmd, tagdata)
        items == attachTags(renderItems(cmd), look)
        base == cmd.data @@ ("args" :> [items |-> items])
        block == IF DictGet(cmd.data, "block") # "event"
                    /\ cmd.target # "Default"
                 THEN ("target" :> cmd.target) @@ base
                 ELSE base
    IN  [block |-> block, warnings |-> look.warnings]

RECURSIVE concatWarnings(_, _)
concatWarnings(built, i) ==
    IF i > Len(built) THEN <<>>
    ELSE built[i].warnings \o concatWarnings(built, i + 1)

\* A faulty variant of the naming lines: the name is read off the last block
templateNameOfLast(blocks) ==
    IF blocks = <<>> THEN [exc |-> "IndexError", name |-> "", warnings |-> <<>>]
    ELSE IF "block" \notin DOMAIN blocks[1]
    THEN [exc |-> "KeyError", name |-> "", warnings |-> <<>>]
    ELSE IF blocks[1]["block"] \notin TEMPLATE_STARTERS
    THEN [exc |-> "", name |-> "Unnamed", warnings |->
            <<"Template does not start with an event, function, or process.">>]
    ELSE LET last == blocks[Len(blocks)]
         IN  IF "action" \in DOMAIN last /\ "block" \in DOMAIN last
             THEN [exc |-> "", warnings |-> <<>>,
                   name |-> last["block"] \o "_" \o last["action"]]
             ELSE IF "data" \in DOMAIN last
             THEN [exc |-> "", name |-> last["data"], warnings |-> <<>>]
             ELSE [exc |-> "KeyError", name |-> "", warnings |-> <<>>]

\* The lines after the loop: the template name, a warning, or an exception
templateName(blocks) ==
    IF blocks = <<>> THEN [exc |-> "IndexError", name |-> "", warnings |-> <<>>]
    ELSE IF "block" \notin DOMAIN blocks[1]
    THEN [exc |-> "KeyError", name |-> "", warnings |-> <<>>]
    ELSE IF blocks[1]["block"] \notin TEMPLATE_STARTERS
    THEN [exc |-> "", name |-> "Unnamed", warnings |->
            <<"Template does not start with an event, function, or process.">>]
    ELSE IF "action" \in DOMAIN blocks[1]
    THEN [exc |-> "", warnings |-> <<>>,
          name |-> blocks[1]["block"] \o "_" \o blocks[1]["action"]]
    ELSE IF "data" \in DOMAIN blocks[1]
    THEN [exc |-> "", name |-> blocks[1]["data"], warnings |-> <<>>]
    ELSE [exc |-> "KeyError", name |-> "", warnings |-> <<>>]

\* _compress(jsonString): gzip.compress writes the current time (mtime) into
\* its header in front of the deflated text; base64 then encodes the bytes.
compress(jsonString, now) == [mtime |-> now, deflated |-> jsonString]

\* build(): the call's outcome.  It assigns no attribute of self.
build(self, tagdata, now) ==
    LET built == [i \in 1..Len(self.commands) |->
                    buildBlock(self.commands[i], tagdata)]
        mainDict == [blocks |-> [i \in 1..Len(built) |-> built[i].block]]
        tn == templateName(mainDict.blocks)
    IN  IF tn.exc # "" THEN Raised("build", tn.exc)
        ELSE [op |-> "build", status |-> "return",
              code |-> compress(mainDict, now), name |-> tn.name,
              warnings |-> concatWarnings(built, 1) \o tn.warnings]

---------------------------------------------------------------------------
(* The builder as a state machine: each step is one call on the instance *)

Self ==
    [commands |-> commands, closebracket |-> closebracket,
     definedVars |-> definedVars]

\* A call of a builder method whose effect and outcome are `r`
Call(op, r) ==
    /\ commands' = r.self.commands
    /\ closebracket' = r.self.closebracket
    /\ definedVars' = r.self.definedVars
    /\ ret' = IF r.exc = "" THEN Returned(op) ELSE Raised(op, r.exc)
    /\ UNCHANGED <<TAGDATA, clock>>

\* A call of build()
Build ==
    /\ ret' = build(Self, TAGDATA, clock)
    /\ UNCHANGED <<commands, closebracket, definedVars, TAGDATA, clock>>

\* A second passes on the wall clock
Tick ==
    /\ clock < MaxClock
    /\ clock' = clock + 1
    /\ UNCHANGED <<commands, closebracket, definedVars, TAGDATA, ret>>

Init ==
    /\ commands = init.commands
    /\ closebracket = init.closebracket
    /\ definedVars = init.definedVars
    /\ TAGDATA \in LoadedTables
    /\ clock = 0
    /\ ret = [op |-> "__init__", status |-> "return"]

(* The inputs of Spec *)
ArgLists ==
    {<<>>,
     <<RawStr("hello")>>,
     <<var("y", "saved"), RawInt(5), RawStr("^x")>>}

Targets == {"Default", "Selection"}

ParamDicts ==
    {<<>>,
     <<<<"a", RawInt(1)>>>>,
     <<<<"a", RawInt(1)>>, <<"b", RawStr("^x")>>>>}

NameSets ==
    [playerAction |-> {"SendMessage", "SendMesage"},
     control |-> {"Wait", "Return"}]

(* The calls, each taken while len(commands) < lim, on arguments drawn from
   the given lists *)
PlayerEvent(lim) ==
    /\ Len(commands) < lim
    /\ Call("playerEvent", playerEvent(Self, "Join"))

EntityEvent(lim) ==
    /\ Len(commands) < lim
    /\ Call("entityEvent", entityEvent(Self, "EntityDeath"))

Function(lim) ==
    /\ Len(commands) < lim
    /\ Call("function", function(Self, "f"))

Process(lim) ==
    /\ Len(commands) < lim
    /\ Call("process", process(Self, "p"))

CallFunction(lim) ==
    /\ Len(commands) < lim
    /\ \E d \in ParamDicts : Call("callFunction", callFunction(Self, "f", d))

StartProcess(lim) ==
    /\ Len(commands) < lim
    /\ Call("startProcess", startProcess(Self, "p"))

PlayerAction(lim, lists) ==
    /\ Len(commands) < lim
    /\ \E name \in NameSets.playerAction, a \in lists, t \in Targets :
          Call("playerAction", playerAction(Self, name, a, t))

GameAction(lim, lists) ==
    /\ Len(commands) < lim
    /\ \E a \in lists : Call("gameAction", gameAction(Self, "SpawnMob", a))

EntityAction(lim, lists) ==
    /\ Len(commands) < lim
    /\ \E a \in lists : Call("entityAction", entityAction(Self, "Heal", a))

IfPlayer(lim, lists) ==
    /\ Len(commands) < lim
    /\ \E a \in lists, t \in Targets :
          Call("ifPlayer", ifPlayer(Self, "IsSneaking", a, t))

IfVariable(lim, lists) ==
    /\ Len(commands) < lim
    /\ \E a \in lists : Call("ifVariable", ifVariable(Self, "=", a))

IfGame(lim, lists) ==
    /\ Len(commands) < lim
    /\ \E a \in lists : Call("ifGame", ifGame(Self, "BlockEquals", a))

IfEntity(lim, lists) ==
    /\ Len(commands) < lim
    /\ \E a \in lists : Call("ifEntity", ifEntity(Self, "IsMob", a))

Else_(lim) ==
    /\ Len(commands) < lim
    /\ Call("else_", else_(Self))

Repeat(lim, lists) ==
    /\ Len(commands) < lim
    /\ \E a \in lists, sub \in {None, "IsSneaking"} :
          Call("repeat", repeat(Self, "While", a, sub))

Bracket(lim, lists) ==
    /\ Len(commands) < lim
    /\ \E a \in lists : Call("bracket", bracket(Self, a))

Control(lim, lists) ==
    /\ Len(commands) < lim
    /\ \E name \in NameSets.control, a \in lists :
          Call("control", control(Self, name, a))

SelectObject(lim, lists) ==
    /\ Len(commands) < lim
    /\ \E a \in lists : Call("selectObject", selectObject(Self, "AllPlayers", a))

SetVariable(lim, lists) ==
    /\ Len(commands) < lim
    /\ \E a \in lists : Call("setVariable", setVariable(Self, "=", a))

Return_(lim) ==
    /\ Len(commands) < lim
    /\ \E d \in ParamDicts : Call("return_", return_(Self, d))

Define_(lim, names, scopes) ==
    /\ Len(commands) < lim
    /\ \E name \in names, value \in {RawInt(0), RawStr("^x")},
          scope \in scopes, createSetVar \in BOOLEAN :
          Call("define_", define_(Self, name, value, scope, createSetVar))

Clear ==
    /\ Call("clear", clear(Self))

Next ==
    \/ PlayerEvent(MaxCmds)
    \/ EntityEvent(MaxCmds)
    \/ Function(MaxCmds)
    \/ Process(MaxCmds)
    \/ CallFunction(MaxCmds)
    \/ StartProcess(MaxCmds)
    \/ PlayerAction(MaxCmds, ArgLists)
    \/ GameAction(MaxCmds, ArgLists)
    \/ EntityAction(MaxCmds, ArgLists)
    \/ IfPlayer(MaxCmds, ArgLists)
    \/ IfVariable(MaxCmds, ArgLists)
    \/ IfGame(MaxCmds, ArgLists)
    \/ IfEntity(MaxCmds, ArgLists)
    \/ Else_(MaxCmds)
    \/ Repeat(MaxCmds, ArgLists)
    \/ Bracket(MaxCmds, ArgLists)
    \/ Control(MaxCmds, ArgLists)
    \/ SelectObject(MaxCmds, ArgLists)
    \/ SetVariable(MaxCmds, ArgLists)
    \/ Return_(MaxCmds)
    \/ Define_(MaxCmds, {"x"}, {"unsaved"})
    \/ Clear
    \/ Build

Spec == Init /\ [][Next]_vars

(* SpecNest: the openers and bracket() alone, without arguments, to a
   depth at which openers nest *)
NoArgs == {<<>>}

NextNest ==
    \/ IfPlayer(MaxNest, NoArgs)
    \/ IfVariable(MaxNest, NoArgs)
    \/ IfGame(MaxNest, NoArgs)
    \/ IfEntity(MaxNest, NoArgs)
    \/ Else_(MaxNest)
    \/ Repeat(MaxNest, NoArgs)
    \/ Bracket(MaxNest, NoArgs)
    \/ Clear
    \/ Build

SpecNest == Init /\ [][NextNest]_vars

(* SpecItems: blocks with short and with long argument lists, built while
   the clock runs *)
IntList(n) == [i \in 1..n |-> RawInt(i)]

LongLists ==
    {IntList(n) : n \in {m \in 0..MaxArgs : m <= 2 \/ m >= LongFrom}}
    \cup {<<var("y", "saved"), RawStr("hello"), RawInt(5)>>}

NextItems ==
    \/ PlayerEvent(MaxItemCmds)
    \/ StartProcess(MaxItemCmds)
    \/ PlayerAction(MaxItemCmds, LongLists)
    \/ GameAction(MaxItemCmds, LongLists)
    \/ Control(MaxItemCmds, LongLists)
    \/ SetVariable(MaxItemCmds, LongLists)
    \/ Clear
    \/ Build
    \/ Tick

SpecItems == Init /\ [][NextItems]_vars

---------------------------------------------------------------------------
(* Properties *)

IsOpen(cmd) == DictGet(cmd.data, "direct") = "open"
IsClose(cmd) == DictGet(cmd.data, "direct") = "close"

\* The position of the last opening bracket block before position i (0: none)
LastOpenBefore(i) ==
    LET opens == {j \in 1..(i - 1) : IsOpen(commands[j])}
    IN  IF opens = {} THEN 0 ELSE CHOOSE j \in opens : \A k \in opens : k <= j

Openers == {"ifPlayer", "ifVariable", "ifGame", "ifEntity", "else_", "repeat"}

\* C1: every closing bracket block in the sequence carries the flavor of the
\* most recently appended opening bracket block before it, and that flavor is
\* 'repeat' when the opener was a repeat block and 'norm' when it was a
\* conditional or else block; with no opening bracket before it the closing
\* block has no flavor to carry (None).
C1_CloseCarriesLastOpened ==
    \A i \in 1..Len(commands) :
        IsClose(commands[i]) =>
            LET j == LastOpenBefore(i)
            IN  IF j = 0
                THEN commands[i].data.type = None
                ELSE /\ commands[i].data.type = commands[j].data.type
                     /\ j > 1
                     /\ commands[i].data.type =
                            IF commands[j - 1].data.block = "repeat"
                            THEN "repeat" ELSE "norm"

\* An opener of each flavor, each immediately followed by bracket()
C1_Witness ==
    /\ \E i \in 3..Len(commands) :
          /\ IsClose(commands[i]) /\ IsOpen(commands[i - 1])
          /\ commands[i - 2].data.block = "repeat"
          /\ commands[i].data.type = "repeat"
    /\ \E i \in 3..Len(commands) :
          /\ IsClose(commands[i]) /\ IsOpen(commands[i - 1])
          /\ commands[i - 2].data.block \in {"if_var", "else"}
          /\ commands[i].data.type = "norm"

\* C2 as stated: right after a bracket() call the tracked bracket state is
\* the no-open value of a fresh builder.
C2_BracketResetsState ==
    (ret.op = "bracket" /\ ret.status = "return") => closebracket = init.closebracket

\* C2, amended: an opener sets the tracked bracket state to its flavor,
\* bracket() leaves the tracked state as it was (still the flavor of the
\* most recent opener), and only clear() returns it to the no-open value.
C2_BracketKeepsState ==
    [][/\ (ret'.op = "bracket" => closebracket' = closebracket)
       /\ (ret'.op \in Openers /\ ret'.status = "return" =>
              closebracket' = IF ret'.op = "repeat" THEN "repeat" ELSE "norm")
       /\ (ret'.op = "clear" => closebracket' = init.closebracket)]_vars

\* bracket() has returned and the bracket state is still that of the opener
C2_Witness ==
    /\ ret.op = "bracket" /\ ret.status = "return"
    /\ IsClose(commands[Len(commands)])
    /\ closebracket = "repeat"

(* The last call was a build() that returned; what it returned *)
Built == ret.op = "build" /\ ret.status = "return"

\* The items list of the b-th block of the document build() encoded
ItemsOf(b) == ret.code.deflated.blocks[b]["args"].items

\* The typed arguments the b-th block was built from
ArgsOf(b) == IF commands[b].args = <<>> THEN <<>> ELSE commands[b].args[1]

\* The schema's tags for the b-th block (none when the lookup finds none)
TagsOf(b) ==
    LET look == lookupTags(commands[b], TAGDATA)
    IN  IF look.found THEN look.tags ELSE <<>>

TagsFound(b) == lookupTags(commands[b], TAGDATA).found

\* entry is the argument arg rendered with slot index slot
IsRendering(entry, arg, slot) ==
    /\ entry.slot = slot
    /\ entry.item.id = arg.type
    /\ entry.item.n = arg.n
    /\ entry.item.s = arg.s
    /\ entry.item.scope = arg.scope

\* C3 as stated: for every block built from N arguments the entries of the
\* built items list before the tags are the N arguments in call order, the
\* i-th rendered with slot index i.
C3_AllArgsRendered ==
    Built =>
        \A b \in 1..Len(commands) :
            /\ Len(ItemsOf(b)) - Len(TagsOf(b)) = Len(ArgsOf(b))
            /\ \A i \in 1..Len(ArgsOf(b)) :
                  IsRendering(ItemsOf(b)[i], ArgsOf(b)[i], i - 1)

\* C3, amended: the entries before the tags are the first K arguments in
\* call order, the i-th rendered with slot index i (slots 0..K-1, no gap and
\* no repeat), where K = N, except that K = 26 - tagCount when N > 27 and
\* the schema lookup finds tags.
C3_LeadingArgsRendered ==
    Built =>
        \A b \in 1..Len(commands) :
            LET N == Len(ArgsOf(b))
                K == IF TagsFound(b) /\ N > 27 THEN 26 - Len(TagsOf(b)) ELSE N
            IN  /\ Len(ItemsOf(b)) - Len(TagsOf(b)) = K
                /\ \A i \in 1..K : IsRendering(ItemsOf(b)[i], ArgsOf(b)[i], i - 1)

\* A built block whose arguments, of several types, are followed by tags
C3_Witness ==
    /\ Built
    /\ \E b \in 1..Len(commands) :
          /\ Len(ArgsOf(b)) = 3
          /\ {ArgsOf(b)[i].type : i \in 1..3} = {"var", "txt", "num"}
          /\ Len(TagsOf(b)) = 2
          /\ Len(ItemsOf(b)) = 5
          /\ ItemsOf(b)[3].slot = 2

\* C4: for every block for which the lookup finds tags, the built items list
\* has at most 27 entries and the tags are its final entries.
C4_ItemsWithinCapacity ==
    Built =>
        \A b \in 1..Len(commands) :
            TagsFound(b) =>
                /\ Len(ItemsOf(b)) <= 27
                /\ Len(ItemsOf(b)) >= Len(TagsOf(b))
                /\ SubSeq(ItemsOf(b), Len(ItemsOf(b)) - Len(TagsOf(b)) + 1,
                          Len(ItemsOf(b))) = TagsOf(b)

\* C5: for a block with more than 27 rendered arguments for which tagCount
\* tags are found, the built items list is the first 26 - tagCount arguments
\* in their order followed by the tags in schema order: 26 entries in all.
C5_TrimTo26 ==
    Built =>
        \A b \in 1..Len(commands) :
            (TagsFound(b) /\ Len(ArgsOf(b)) > 27) =>
                LET tagCount == Len(TagsOf(b))
                IN  /\ Len(ItemsOf(b)) = 26
                    /\ \A i \in 1..(26 - tagCount) :
                          IsRendering(ItemsOf(b)[i], ArgsOf(b)[i], i - 1)
                    /\ SubSeq(ItemsOf(b), 26 - tagCount + 1, 26) = TagsOf(b)

\* A built block of more than 27 arguments that was trimmed for two tags
C5_Witness ==
    /\ Built
    /\ \E b \in 1..Len(commands) :
          /\ Len(ArgsOf(b)) > 27
          /\ Len(TagsOf(b)) = 2
          /\ Len(ItemsOf(b)) = 26
          /\ ItemsOf(b)[24].slot = 23

\* C6: build() on a builder whose block sequence is empty completes without
\* raising and returns the display name "Unnamed".
C6_EmptyBuildUnnamed ==
    (ret.op = "build" /\ commands = <<>>) =>
        (ret.status = "return" /\ ret.name = "Unnamed")

StructuralWarning ==
    "Template does not start with an event, function, or process."

\* C7: build() on a non-empty sequence whose first block is not of an
\* entry-point category (a bracket block included) does not raise: it warns,
\* returns the artifact, and the display name is "Unnamed".
C7_NonStarterUnnamed ==
    (/\ ret.op = "build"
     /\ commands # <<>>
     /\ DictGet(commands[1].data, "block") \notin TEMPLATE_STARTERS) =>
        /\ ret.status = "return"
        /\ ret.name = "Unnamed"
        /\ \E w \in 1..Len(ret.warnings) : ret.warnings[w] = StructuralWarning
        /\ Len(ret.code.deflated.blocks) = Len(commands)

\* C8: when the first block is of an entry-point category, build() returns
\* a display name derived from that first block alone: category, "_" and
\* action for an event or entity event, the bare data string for a function
\* or process.
C8_NameFromFirstBlock ==
    (/\ ret.op = "build"
     /\ commands # <<>>
     /\ DictGet(commands[1].data, "block") \in TEMPLATE_STARTERS) =>
        /\ ret.status = "return"
        /\ ret.name =
              IF commands[1].data.block \in {"event", "entity_event"}
              THEN commands[1].data.block \o "_" \o commands[1].data.action
              ELSE commands[1].data.data

\* playerEvent("Join") followed by a block with its own action: "event_Join"
C8_Witness ==
    /\ Built
    /\ Len(commands) >= 2
    /\ commands[1].data.block = "event"
    /\ "action" \in DOMAIN commands[Len(commands)].data
    /\ commands[Len(commands)].data.block # "event"
    /\ ret.name = "event_Join"

\* C9: build() leaves the block sequence, the defined-variables map, the
\* bracket state and the schema table unchanged, and a build() that follows
\* a build() with no builder operation in between returns the same
\* (encoded string, name) pair.
C9_BuildTwiceSame ==
    [][(ret.op = "build" /\ ret'.op = "build") =>
          /\ UNCHANGED <<commands, closebracket, definedVars, TAGDATA>>
          /\ ret' = ret]_vars

\* C10: clear() leaves the block sequence empty, the bracket state at the
\* no-open value and the defined-variables map empty, so that a back-reference
\* to any name defined before the clear fails after it; every operation other
\* than clear() and define_() leaves the defined names as they were, and
\* define_() removes none.
C10_ClearResets ==
    [][/\ (ret'.op = "clear" =>
              /\ commands' = <<>>
              /\ closebracket' = None
              /\ DOMAIN definedVars' = {}
              /\ \A name \in DOMAIN definedVars :
                    setVariable(Self', "=", <<RawStr("^" \o name)>>).exc
                        = "KeyError")
       /\ (ret'.op \notin {"clear", "define_"} => definedVars' = definedVars)
       /\ (ret'.op = "define_" =>
              \A name \in DOMAIN definedVars :
                  name \in DOMAIN definedVars'
                  /\ (name # "x" => definedVars'[name] = definedVars[name]))]_vars

\* clear() has returned on a builder that is as a fresh one
C10_Witness ==
    /\ ret.op = "clear" /\ ret.status = "return"
    /\ commands = <<>>
    /\ closebracket = None
    /\ DOMAIN definedVars = {}

---------------------------------------------------------------------------
(* SpecRefs: define_() of two names in two scopes, and calls whose
   arguments refer back to them *)
RefNames == {"x", "y"}

RefLists ==
    {<<RawStr("^x")>>,
     <<RawStr("^y"), RawStr("hello")>>}

NextRefs ==
    \/ Define_(MaxRefCmds, RefNames, {"unsaved", "local"})
    \/ SetVariable(MaxRefCmds, RefLists)
    \/ Clear
    \/ Build

SpecRefs == Init /\ [][NextRefs]_vars

\* What the argument "^name" converts to in the builder state self
Resolve(self, name) == convertDataTypes(self, <<RawStr("^" \o name)>>)

LastBlock(cmds) == cmds[Len(cmds)]

\* C11: a "^name" argument converts to the variable reference the most recent
\* define_(name, ...) bound (same name, same scope as the variable define_
\* assigned), and no call but define_ and clear changes what it converts to;
\* for a name with no define_ the conversion fails with KeyError, and no block
\* ever carries "^name" as a text argument.
C11_BackReference ==
    [][/\ (ret'.op = "define_" /\ ret'.status = "return"
            /\ Len(commands') > Len(commands)) =>
              LET v == LastBlock(commands').args[1][1]
              IN  /\ v.type = "var"
                  /\ Resolve(Self', v.s) = [exc |-> "", val |-> <<v>>]
       /\ \A name \in RefNames :
            /\ name \notin DOMAIN definedVars' =>
                  Resolve(Self', name).exc = "KeyError"
            /\ name \in DOMAIN definedVars' =>
                  /\ Resolve(Self', name).exc = ""
                  /\ Resolve(Self', name).val[1].type = "var"
                  /\ Resolve(Self', name).val[1].s = name
            /\ ret'.op \notin {"define_", "clear"} =>
                  Resolve(Self', name) = Resolve(Self, name)
       /\ (ret'.op = "setVariable" /\ ret'.status = "return") =>
              LET args == LastBlock(commands').args[1]
              IN  /\ Len(args) \in {1, 2}
                  /\ args[1] = Resolve(Self, IF Len(args) = 1 THEN "x" ELSE "y").val[1]
                  /\ \A i \in 1..Len(args) :
                        ~(args[i].type = "txt" /\ Head(args[i].s) = "^")
       /\ (ret'.op = "setVariable" /\ ret'.status = "raise") =>
              /\ ret'.exc = "KeyError"
              /\ \E name \in RefNames : name \notin DOMAIN definedVars]_vars

\* setVariable(..., "^y", "hello") after define_("y", scope='local'): the
\* block's first argument is the local variable y
C11_Witness ==
    /\ ret.op = "setVariable" /\ ret.status = "return"
    /\ "y" \in DOMAIN definedVars
    /\ definedVars["y"] = var("y", "local")
    /\ Len(LastBlock(commands).args[1]) = 2
    /\ LastBlock(commands).args[1][1] = var("y", "local")
    /\ LastBlock(commands).args[1][2].type = "txt"

\* The items list of the b-th built block is its own rendered arguments
\* followed by the entries of tags
ItemsAre(b, tags) ==
    /\ Len(ItemsOf(b)) = Len(ArgsOf(b)) + Len(tags)
    /\ \A i \in 1..Len(ArgsOf(b)) :
          IsRendering(ItemsOf(b)[i], ArgsOf(b)[i], i - 1)
    /\ \A i \in 1..Len(tags) : ItemsOf(b)[Len(ArgsOf(b)) + i] = tags[i]

UnrecognizedWarning == "Code block name not recognized"

\* The blocks whose category is in the schema (not under 'extras') while
\* their action name is not
Unrecognized ==
    {b \in 1..Len(commands) :
        LET blockType == DictGet(commands[b].data, "block")
        IN  /\ ~("extras" \in DOMAIN TAGDATA
                 /\ blockType \in DOMAIN TAGDATA["extras"])
            /\ blockType \in DOMAIN TAGDATA
            /\ commands[b].name \notin DOMAIN TAGDATA[blockType]}

\* C12: build() takes a block's tags from the extras-by-category table when
\* the category is listed there, and otherwise from the category's table by
\* action name; when the category is in the schema and the action name is
\* not, build() still returns, warns once for the block, and the block's
\* items list is exactly its own rendered arguments.  (The blocks here have
\* at most three arguments: nothing is trimmed.)
C12_LookupOrder ==
    (ret.op = "build" /\ commands # <<>>
        /\ "block" \in DOMAIN commands[1].data) =>
        /\ ret.status = "return"
        /\ \A b \in 1..Len(commands) :
              LET blockType == DictGet(commands[b].data, "block")
              IN  IF "extras" \in DOMAIN TAGDATA
                     /\ blockType \in DOMAIN TAGDATA["extras"]
                  THEN ItemsAre(b, TAGDATA["extras"][blockType])
                  ELSE IF b \in Unrecognized THEN ItemsAre(b, <<>>)
                  ELSE IF blockType \in DOMAIN TAGDATA
                  THEN ItemsAre(b, TAGDATA[blockType][commands[b].name])
                  ELSE ItemsAre(b, <<>>)
        /\ Cardinality({w \in 1..Len(ret.warnings) :
                            ret.warnings[w] = UnrecognizedWarning})
              = Cardinality(Unrecognized)

\* A built sequence with a misspelt player action that has an argument, and
\* a call_func block, whose category is under 'extras' and under its own key
C12_Witness ==
    /\ Built
    /\ TAGDATA = SchemaData
    /\ \E b \in Unrecognized :
          /\ commands[b].data.block = "player_action"
          /\ Len(ArgsOf(b)) = 1
          /\ Len(ItemsOf(b)) = 1
    /\ \E w \in 1..Len(ret.warnings) : ret.warnings[w] = UnrecognizedWarning
    /\ \E b \in 1..Len(commands) :
          /\ DictGet(commands[b].data, "block") = "call_func"
          /\ ItemsOf(b) = TAGDATA["extras"]["call_func"]

\* C13: every call other than clear() leaves the blocks appended so far
\* unchanged and in place as a prefix of the new sequence (a failing call
\* included); the sequence is never shortened or reordered.
C13_GrowsByAppend ==
    [][ret'.op # "clear" =>
          /\ Len(commands') >= Len(commands)
          /\ SubSeq(commands', 1, Len(commands)) = commands]_vars

\* callFunction has appended three blocks behind an earlier one
C13_Witness ==
    /\ ret.op = "callFunction" /\ ret.status = "return"
    /\ Len(commands) = 4
    /\ commands[1].data.block = "event"
    /\ commands[4].data.block = "call_func"

(* SpecCalls: callFunction() and return_() with zero, one and two
   parameters, the last a back-reference, behind events and define_() *)
NextCalls ==
    \/ PlayerEvent(MaxCallCmds)
    \/ Define_(MaxCallCmds, {"x"}, {"unsaved"})
    \/ CallFunction(MaxCallCmds)
    \/ Return_(MaxCallCmds)
    \/ Clear
    \/ Build

SpecCalls == Init /\ [][NextCalls]_vars

\* The set_var '=' blocks that assign, in d's order, each value of d to the
\* local variable named by its key, as called on the builder state self
LocalAssignments(self, d) ==
    [i \in 1..Len(d) |->
        [name |-> "=",
         args |-> << <<[py |-> "obj", type |-> "var", n |-> 0, s |-> d[i][1],
                        scope |-> "local"],
                       convertElement(self, d[i][2]).val>> >>,
         target |-> "Default",
         data |-> [id |-> "block", block |-> "set_var", action |-> "="]]]

\* C14: a callFunction(name, parameters) that returns has appended exactly
\* k + 1 blocks for k parameters: one set_var '=' block per parameter, in the
\* parameters' order, assigning its value to the local variable of its name,
\* and last the call_func block carrying name (that block alone when k = 0).
C14_CallFunctionBlocks ==
    [][/\ \A d \in ParamDicts :
             callFunction(Self, "f", d).exc = "" =>
                 callFunction(Self, "f", d).self.commands =
                     commands \o LocalAssignments(Self, d) \o
                     <<[name |-> "call_func", args |-> <<>>,
                        target |-> "Default",
                        data |-> [id |-> "block", block |-> "call_func",
                                  data |-> "f"]]>>
       /\ (ret'.op = "callFunction" /\ ret'.status = "return") =>
             \E d \in ParamDicts :
                 /\ Len(commands') = Len(commands) + Len(d) + 1
                 /\ SubSeq(commands', Len(commands) + 1, Len(commands) + Len(d))
                        = LocalAssignments(Self, d)
                 /\ LastBlock(commands').data =
                        [id |-> "block", block |-> "call_func", data |-> "f"]]_vars

\* callFunction("f", {a: 1, b: "^x"}) has returned: a = 1, b = x, the call
C14_Witness ==
    /\ ret.op = "callFunction" /\ ret.status = "return"
    /\ Len(commands) >= 3
    /\ LET n == Len(commands)
       IN  /\ commands[n].data.block = "call_func"
           /\ commands[n - 1].data.block = "set_var"
           /\ commands[n - 1].args[1][1] = var("b", "local")
           /\ commands[n - 1].args[1][2] = definedVars["x"]
           /\ commands[n - 2].data.block = "set_var"
           /\ commands[n - 2].args[1][1] = var("a", "local")
           /\ commands[n - 2].args[1][2].n = 1

\* C15: a return_(returndata) that returns has appended exactly k + 1 blocks
\* for k return values: one set_var '=' block per value in the given order,
\* assigning to the local variable of that name, and last a control block
\* with action 'Return'.
C15_ReturnBlocks ==
    [][/\ \A d \in ParamDicts :
             return_(Self, d).exc = "" =>
                 return_(Self, d).self.commands =
                     commands \o LocalAssignments(Self, d) \o
                     <<[name |-> "Return", args |-> << <<>> >>,
                        target |-> "Default",
                        data |-> [id |-> "block", block |-> "control",
                                  action |-> "Return"]]>>
       /\ (ret'.op = "return_" /\ ret'.status = "return") =>
             \E d \in ParamDicts :
                 /\ Len(commands') = Len(commands) + Len(d) + 1
                 /\ SubSeq(commands', Len(commands) + 1, Len(commands) + Len(d))
                        = LocalAssignments(Self, d)
                 /\ LastBlock(commands').data =
                        [id |-> "block", block |-> "control",
                         action |-> "Return"]]_vars

\* return_({a: 1, b: "^x"}) has returned: a = 1, b = x, then Return
C15_Witness ==
    /\ ret.op = "return_" /\ ret.status = "return"
    /\ Len(commands) >= 3
    /\ LET n == Len(commands)
       IN  /\ commands[n].data.block = "control"
           /\ commands[n].data.action = "Return"
           /\ commands[n - 1].args[1][1] = var("b", "local")
           /\ commands[n - 1].args[1][2] = definedVars["x"]
           /\ commands[n - 2].args[1][1] = var("a", "local")
           /\ commands[n - 2].args[1][2].n = 1

OpenerBlock ==
    [ifPlayer |-> "if_player", ifVariable |-> "if_var", ifGame |-> "if_game",
     ifEntity |-> "if_entity", else_ |-> "else", repeat |-> "repeat"]

\* C16: an opener that returns has appended exactly two records, its own
\* block and then an opening bracket block; in every sequence each opening
\* bracket block is immediately preceded by a conditional, else or repeat
\* block, and its flavor is 'repeat' exactly when that block is a repeat
\* block and 'norm' otherwise.
C16_OpenerThenBracket ==
    [][/\ (ret'.op \in Openers /\ ret'.status = "return") =>
             /\ Len(commands') = Len(commands) + 2
             /\ SubSeq(commands', 1, Len(commands)) = commands
             /\ DictGet(commands'[Len(commands) + 1].data, "block")
                    = OpenerBlock[ret'.op]
             /\ IsOpen(commands'[Len(commands) + 2])
       /\ \A i \in 1..Len(commands') :
             IsOpen(commands'[i]) =>
                 /\ i > 1
                 /\ DictGet(commands'[i - 1].data, "block") \in
                        {OpenerBlock[o] : o \in Openers}
                 /\ commands'[i].data.type =
                        IF commands'[i - 1].data.block = "repeat"
                        THEN "repeat" ELSE "norm"]_vars

\* A repeat and an else, each followed by its opening bracket
C16_Witness ==
    /\ Len(commands) >= 4
    /\ \E i \in 2..Len(commands) :
          /\ IsOpen(commands[i]) /\ commands[i].data.type = "repeat"
          /\ commands[i - 1].data.block = "repeat"
    /\ \E i \in 2..Len(commands) :
          /\ IsOpen(commands[i]) /\ commands[i].data.type = "norm"
          /\ commands[i - 1].data.block = "else"

\* C17: where an opener of one flavor is followed at once by an opener of the
\* other flavor and then by two bracket() calls, both closing blocks carry
\* the inner opener's flavor: the second does not carry the flavor of the
\* outer opener it closes.
C17_InnerFlavorTwice ==
    \A i \in 6..Len(commands) :
        (/\ IsClose(commands[i]) /\ IsClose(commands[i - 1])
         /\ IsOpen(commands[i - 2]) /\ IsOpen(commands[i - 4])
         /\ commands[i - 2].data.type # commands[i - 4].data.type) =>
            /\ commands[i - 1].data.type = commands[i - 2].data.type
            /\ commands[i].data.type = commands[i - 2].data.type
            /\ commands[i].data.type # commands[i - 4].data.type

\* repeat, ifVariable, bracket, bracket: both closing blocks are 'norm'
C17_Witness ==
    /\ Len(commands) = 6
    /\ commands[1].data.block = "repeat"
    /\ IsOpen(commands[2]) /\ commands[2].data.type = "repeat"
    /\ commands[3].data.block = "if_var"
    /\ IsOpen(commands[4]) /\ commands[4].data.type = "norm"
    /\ IsClose(commands[5]) /\ commands[5].data.type = "norm"
    /\ IsClose(commands[6]) /\ commands[6].data.type = "norm"

\* C18: bracket() called on a sequence in which no bracket was opened (none
\* since construction or the last clear()) raises nothing and appends one
\* closing bracket block whose flavor is None, neither 'norm' nor 'repeat'.
C18_StrayBracket ==
    [][(ret'.op = "bracket"
          /\ \A j \in 1..Len(commands) : ~IsOpen(commands[j])) =>
             /\ ret'.status = "return"
             /\ Len(commands') = Len(commands) + 1
             /\ IsClose(LastBlock(commands'))
             /\ LastBlock(commands').data.type = None
             /\ LastBlock(commands').data.type \notin {"norm", "repeat"}]_vars

\* bracket() has returned on a fresh builder
C18_Witness ==
    /\ ret.op = "bracket" /\ ret.status = "return"
    /\ Len(commands) = 1
    /\ IsClose(commands[1])
    /\ commands[1].data.type = None

\* C19: a builder call that raises leaves the block sequence, the defined
\* names and the bracket state as they were before the call.
C19_FailedCallChangesNothing ==
    [][(ret'.status = "raise" /\ ret'.op # "build") =>
          UNCHANGED <<commands, closebracket, definedVars>>]_vars

=============================================================================
